---- MODULE Spec2Model ----
(***************************************************************************)
(* A model of the rsvim development scripts:                               *)
(*   dev.py      the command composer (flags, environment, one command     *)
(*               per subcommand),                                          *)
(*   develop.py  the earlier composer that builds NAME=value prefixes,     *)
(*   miri.py     the test job partitioner.                                 *)
(* One run of a script is one process: Init is the process right after     *)
(* its module-level statements, with its command line and its host facts   *)
(* chosen; the actions are the handlers the script runs.                   *)
(*                                                                         *)
(* A command string is a sequence of tokens.  A token is a sequence of     *)
(* strings: <<w>> is the word w, <<n, v>> is the shell assignment n=v.     *)
(***************************************************************************)
EXTENDS Integers, Sequences, FiniteSets, TLC

VARIABLES
    script,             \* which script this process runs
    pc,                 \* where the process is
    argv,               \* the parsed command line (argparse Namespace)
    handed,             \* dev.py: the kind of object handed to run as args
    WINDOWS,            \* dev.py:15  platform fact
    which,              \* the optional tools found on the search path
    child_status,       \* the exit status every spawned child ends with
    git_root_is_dir,    \* dev.py:418 whether $CWD/.git is a directory
    RECACHE_SCCACHE,    \* dev.py:22
    SKIP_SCCACHE,       \* dev.py:23
    DISABLE_EXTENDED_TOOLS, \* develop.py:10
    RUSTFLAGS,          \* dev.py:25  the flag accumulator
    environ,            \* os.environ of this process
    env_log,            \* the variables resolved so far, in resolution order
    commands,           \* the commands handed to os.system, in order
    raised,             \* the uncaught exception, or NoException
    exit_code,          \* the exit status of this process, or Running
    tests_arg,          \* miri.py: the --tests value, split at ","
    total_jobs,         \* miri.py:11 TOTAL_JOBS
    outputs             \* miri.py: what each job (worker process) selected

vars == << script, pc, argv, handed, WINDOWS, which, child_status, git_root_is_dir,
           RECACHE_SCCACHE, SKIP_SCCACHE, DISABLE_EXTENDED_TOOLS, RUSTFLAGS,
           environ, env_log, commands, raised, exit_code, tests_arg,
           total_jobs, outputs >>

----------------------------------------------------------------------------
(* Values *)

None == "None"
NoException == "NoException"
Running == "Running"
Unset == "<unset>"

\* The exit statuses a child command ends with: success, and cargo's failure.
ChildStatuses == {0, 101}

\* The names the composers resolve.
EnvNames == {"RUSTFLAGS", "SCCACHE_RECACHE", "RUSTC_WRAPPER", "RUST_BACKTRACE",
             "RSVIM_LOG", "RUST_LOG", "MIRIFLAGS"}

CacheNames == {"SCCACHE_RECACHE", "RUSTC_WRAPPER"}

Word(w) == << w >>
Assign(n, v) == << n, v >>
IsAssign(tok) == Len(tok) = 2

RECURSIVE Words(_)
\* a string of plain words, as a token sequence
Words(ws) == IF ws = << >> THEN << >> ELSE << Word(Head(ws)) >> \o Words(Tail(ws))

RECURSIVE Join(_, _)
\* sep.join(strs)
Join(sep, strs) ==
    IF strs = << >> THEN ""
    ELSE IF Len(strs) = 1 THEN strs[1]
    ELSE strs[1] \o sep \o Join(sep, Tail(strs))

RECURSIVE Dedup(_)
\* list(dict.fromkeys(names)): the first occurrence of each name, in order
Dedup(names) ==
    IF names = << >> THEN << >>
    ELSE LET init == Dedup(SubSeq(names, 1, Len(names) - 1))
             last == names[Len(names)]
         IN  IF \E i \in 1..Len(init) : init[i] = last THEN init
             ELSE Append(init, last)

\* the leading NAME=value tokens of a command: what the shell turns into the
\* environment of the command that follows them
RECURSIVE Prefix(_)
Prefix(command) ==
    IF command = << >> \/ ~IsAssign(Head(command)) THEN << >>
    ELSE << Head(command) >> \o Prefix(Tail(command))

----------------------------------------------------------------------------
(* dev.py: the composer.  The module globals and os.environ are threaded   *)
(* through the handlers as a record m; an action stores the record the     *)
(* whole handler ends with.                                                *)

\* dev.py:21  shutil.which("sccache")
SCCACHE_FULLPATH == IF "sccache" \in which THEN "/usr/bin/sccache" ELSE None

Machine == [RUSTFLAGS |-> RUSTFLAGS, environ |-> environ, log |-> env_log,
            cmds |-> commands, raised |-> raised, command |-> << >>]

\* an uncaught exception ends the handler: nothing after it runs
Raise(m, exc) == [m EXCEPT !.raised = exc]

\* os.system(command): the child sees the process environment as it is now;
\* flags is the flag accumulator at that moment
os_system(m, command) ==
    [m EXCEPT !.cmds = Append(@, [cmd |-> command, env |-> m.environ,
                                  nlog |-> Len(m.log), flags |-> m.RUSTFLAGS])]

set_env_not_exported(m, name, value) ==
    [m EXCEPT !.log = Append(@, << name, value >>)]

set_env(m, name, value) ==
    [m EXCEPT !.environ[name] = value, !.log = Append(@, << name, value >>)]

append_rustflags(m, opt) == [m EXCEPT !.RUSTFLAGS = Append(@, opt)]

set_rustflags(m) ==
    IF Len(m.RUSTFLAGS) > 0
    THEN set_env(m, "RUSTFLAGS", Join(" ", m.RUSTFLAGS))
    ELSE m

set_sccache_wrapper_first(m) ==
    IF SCCACHE_FULLPATH = None THEN m
    ELSE IF SKIP_SCCACHE THEN m
    ELSE LET m1 == set_env(m, "RUSTC_WRAPPER", SCCACHE_FULLPATH)
         IN  IF RECACHE_SCCACHE THEN set_env(m1, "SCCACHE_RECACHE", "1") ELSE m1

set_sccache(m) ==
    IF SCCACHE_FULLPATH = None THEN m
    ELSE IF SKIP_SCCACHE THEN m
    ELSE LET m1 == IF RECACHE_SCCACHE THEN set_env(m, "SCCACHE_RECACHE", "1")
                   ELSE m
         IN  set_env(m1, "RUSTC_WRAPPER", SCCACHE_FULLPATH)

\* The object a run method receives as args.  The dispatch loop of dev.py
\* hands over the ArgumentParser (dev.py:503), which has none of the parsed
\* options; a caller that follows ICommand.run(args) hands over the Namespace
\* that parse_args returned (dev.py:491).
ArgKinds == {"ArgumentParser", "Namespace"}
Args == [argv EXCEPT !.kind = handed]
\* reading a parsed option of args raises AttributeError when this is false
HasOptions(a) == a.kind = "Namespace"

ClippyCommand_run_no_warnings_first(m, a) ==
    LET m1 == IF WINDOWS THEN append_rustflags(m, "-Csymbol-mangling-version=v0")
              ELSE m
        m2 == append_rustflags(m1, "-Dwarnings")
    IN  os_system(set_sccache(set_rustflags(m2)),
                  Words(<< "cargo", "clippy", "--workspace", "--all-targets" >>))

ClippyCommand_run(m, a) ==
    LET m1 == append_rustflags(m, "-Dwarnings")
        m2 == IF WINDOWS THEN append_rustflags(m1, "-Csymbol-mangling-version=v0")
              ELSE m1
        m3 == set_rustflags(m2)
        m4 == set_sccache(m3)
    IN  os_system(m4, Words(<< "cargo", "clippy", "--workspace", "--all-targets" >>))

TestCommand_test(m, name, jobs) ==
    LET names == IF Len(name) = 0 THEN << "--all" >> ELSE Dedup(name)
        m1 == IF WINDOWS THEN append_rustflags(m, "-Csymbol-mangling-version=v0")
              ELSE m
        m2 == set_env(m1, "RUST_BACKTRACE", "full")
        rsvim_log == m2.environ["RSVIM_LOG"]
        m3 == IF rsvim_log # Unset THEN set_env(m2, "RSVIM_LOG", rsvim_log)
              ELSE set_env(m2, "RSVIM_LOG", "trace")
        m4 == set_sccache(m3)
        m5 == set_rustflags(m4)
    IN  os_system(m5, Words(<< "cargo", "nextest", "run" >>) \o jobs
                      \o Words(<< "--no-capture" >>) \o Words(names))

TestCommand_miri(m, jobs) ==
    LET m1 == IF WINDOWS THEN append_rustflags(m, "-Csymbol-mangling-version=v0")
              ELSE m
        m2 == set_env(m1, "RUST_BACKTRACE", "full")
        m3 == set_env(m2, "MIRIFLAGS",
                      "-Zmiri-backtrace=full -Zmiri-disable-isolation -Zmiri-permissive-provenance")
    IN  os_system(m3, Words(<< "cargo", "+nightly", "miri", "nextest", "run" >>)
                      \o jobs
                      \o Words(<< "-F", "unicode_lines", "--no-default-features",
                                  "-p", "rsvim_core" >>))

TestCommand_list(m) ==
    os_system(set_rustflags(set_sccache(m)), Words(<< "cargo", "nextest", "list" >>))

TestCommand_run(m, a) ==
    IF ~HasOptions(a) THEN Raise(m, "AttributeError")
    ELSE LET m1 == IF a.list_test THEN TestCommand_list(m) ELSE m
             jobs == IF a.job = None THEN << >> ELSE Words(<< "-j", a.job >>)
         IN  IF a.miri THEN TestCommand_miri(m1, jobs)
             ELSE TestCommand_test(m1, a.name, jobs)

BuildCommand_run(m, a) ==
    LET m1 == set_sccache(m)
        m2 == set_rustflags(m1)
    IN  IF ~HasOptions(a) THEN Raise(m2, "AttributeError")
        ELSE LET c1 == IF a.release THEN << "cargo", "build", "--release" >>
                       ELSE IF a.nightly
                            THEN << "cargo", "build", "--profile", "nightly" >>
                            ELSE << "cargo", "build" >>
                 c2 == IF a.verbose THEN Append(c1, "-vv") ELSE c1
                 c3 == IF Len(a.features) > 0
                       THEN c2 \o << "--features", Join(",", a.features) >>
                       ELSE c2
             IN  os_system(m2, Words(c3))

\* FormatCommand: the five formatters, each one os.system call
typos(m) == os_system(m, Words(<< "typos" >>))
rustfmt(m) == os_system(m, Words(<< "cargo", "+nightly", "fmt" >>))
taplo(m) == os_system(m, Words(<< "taplo", "fmt" >>))
prettier(m) == os_system(m, Words(<< "prettier", "--write", "*.md", "./runtime/*.ts" >>))
\* tsc, then each declaration file is rewritten with a header and moved back
tsc(m) ==
    LET m1 == os_system(m, Words(<< "tsc" >>))
        m2 == os_system(m1, Words(<< "mv", ".00__web.d.ts", "types/00__web.d.ts" >>))
    IN  os_system(m2, Words(<< "mv", ".01__rsvim.d.ts", "types/01__rsvim.d.ts" >>))

FormatCommand_run(m, a) ==
    IF ~HasOptions(a) THEN Raise(m, "AttributeError")
    ELSE IF a.tsc THEN tsc(m)
    ELSE IF a.rust THEN rustfmt(m)
    ELSE tsc(prettier(taplo(rustfmt(typos(m)))))

DocCommandLine ==
    << "cargo", "doc", "&&", "browser-sync", "start", "--ss", "target/doc", "-s",
       "target/doc", "--directory", "--startPath", "rsvim_core", "--no-open" >>

DocumentCommand_run(m, a) ==
    IF ~HasOptions(a) THEN Raise(m, "AttributeError")
    ELSE IF a.watch
         THEN os_system(m, Words(<< "cargo", "watch", "-s",
                                    "'" \o Join(" ", DocCommandLine) \o "'" >>))
         ELSE os_system(m, Words(DocCommandLine))

ReleaseCommand_run(m, a) ==
    IF ~git_root_is_dir THEN Raise(m, "AssertionError")
    ELSE IF ~HasOptions(a) THEN Raise(m, "AttributeError")
    ELSE LET c1 == << Assign("GIT_CLIFF_CONFIG", "$PWD/cliff.toml"),
                      Assign("GIT_CLIFF_WORKDIR", "$PWD"),
                      Assign("GIT_CLIFF_REPOSITORY", "$PWD"),
                      Assign("GIT_CLIFF_OUTPUT", "$PWD/CHANGELOG.md") >>
                   \o Words(<< "cargo", "release", a.level >>)
             c2 == IF a.execute THEN c1 \o Words(<< "--execute", "--no-verify" >>)
                   ELSE c1
         IN  os_system(m, c2)

NpmCommand_run(m, a) ==
    IF ~HasOptions(a) THEN Raise(m, "AttributeError")
    ELSE IF a.version # None
         THEN os_system(m, Words(<< "npm", "version", a.version,
                                    "--no-git-tag-version" >>))
         ELSE m

----------------------------------------------------------------------------
(* dev.py: the process *)

\* dev.py:464-497  parse the command line, set the two cache globals
main ==
    /\ script = "dev.py"
    /\ pc = "start"
    /\ pc' = "dispatch"
    /\ RECACHE_SCCACHE' = IF argv.recache THEN TRUE ELSE RECACHE_SCCACHE
    /\ SKIP_SCCACHE' = IF argv.skip_cache THEN TRUE ELSE SKIP_SCCACHE
    /\ UNCHANGED << script, argv, handed, WINDOWS, which, child_status, git_root_is_dir,
                    DISABLE_EXTENDED_TOOLS, RUSTFLAGS, environ, env_log,
                    commands, raised, exit_code, tests_arg, total_jobs, outputs >>

\* dev.py:499-502  the command whose name or alias is the subcommand
Selected(name, alias) ==
    /\ script = "dev.py"
    /\ pc = "dispatch"
    /\ argv.subcommand \in {name, alias}

\* The end of command.run(args).  In the dispatch loop (args is the parser) the
\* process then ends: exit(0) at dev.py:504, or status 1 from the traceback of
\* an uncaught exception.  A caller that passed the Namespace gets control back.
Finish(m) ==
    /\ RUSTFLAGS' = m.RUSTFLAGS
    /\ environ' = m.environ
    /\ env_log' = m.log
    /\ commands' = m.cmds
    /\ raised' = m.raised
    /\ pc' = IF handed = "ArgumentParser" \/ m.raised # NoException
             THEN "exited" ELSE "returned"
    /\ exit_code' = IF m.raised # NoException THEN 1
                    ELSE IF handed = "ArgumentParser" THEN 0
                    ELSE exit_code
    /\ UNCHANGED << script, argv, handed, WINDOWS, which, child_status,
                    git_root_is_dir, RECACHE_SCCACHE, SKIP_SCCACHE,
                    DISABLE_EXTENDED_TOOLS, tests_arg, total_jobs, outputs >>

Build == Selected("build", "b") /\ Finish(BuildCommand_run(Machine, Args))

Clippy == Selected("clippy", "c") /\ Finish(ClippyCommand_run(Machine, Args))

Document == Selected("doc", "doc") /\ Finish(DocumentCommand_run(Machine, Args))

Format == Selected("fmt", "f") /\ Finish(FormatCommand_run(Machine, Args))

Npm == Selected("npm", "npm") /\ Finish(NpmCommand_run(Machine, Args))

Release == Selected("release", "r") /\ Finish(ReleaseCommand_run(Machine, Args))

Test == Selected("test", "t") /\ Finish(TestCommand_run(Machine, Args))

DevSubcommands == {"build", "b", "clippy", "c", "doc", "fmt", "f", "npm",
                   "release", "r", "test", "t"}

\* dev.py:506  no command matched: an error is logged and the script ends
MissingArguments ==
    /\ pc = "dispatch"
    /\ script = "dev.py"
    /\ argv.subcommand \notin DevSubcommands
    /\ pc' = "exited"
    /\ exit_code' = 0
    /\ UNCHANGED << script, argv, handed, WINDOWS, which, child_status, git_root_is_dir,
                    RECACHE_SCCACHE, SKIP_SCCACHE, DISABLE_EXTENDED_TOOLS,
                    RUSTFLAGS, environ, env_log, commands, raised, tests_arg,
                    total_jobs, outputs >>

----------------------------------------------------------------------------
(* develop.py: the earlier composer.  It changes no environment: every     *)
(* variable goes into the command string, m.command, as it is built.       *)

Extended(tool) == tool \in which /\ ~DISABLE_EXTENDED_TOOLS

\* f"{command} NAME=value": the variable is resolved into the command string
prefix_var(m, name, value) ==
    [m EXCEPT !.command = Append(@, Assign(name, value)),
              !.log = Append(@, << name, value >>)]

\* f"{command} words..."
add_words(m, ws) == [m EXCEPT !.command = @ \o Words(ws)]

\* print(command); os.system(command)
run_command(m) == os_system(m, m.command)

cache_prefix(m) ==
    IF Extended("sccache") THEN prefix_var(m, "RUSTC_WRAPPER", "$(which sccache)")
    ELSE m

clippy(m) ==
    LET m1 == prefix_var(m, "RUSTFLAGS", "'-Dwarnings'")
        m2 == cache_prefix(m1)
        m3 == IF Extended("bacon")
              THEN add_words(m2, << "bacon", "-j", "clippy-all", "--headless" >>)
              ELSE add_words(m2, << "cargo", "clippy", "--all-features", "--workspace" >>)
    IN  run_command(m3)

test(m, name) ==
    LET n  == IF name = None THEN "--all" ELSE name
        m1 == prefix_var(m, "RUST_LOG", "trace")
        m2 == cache_prefix(m1)
        m3 == IF Extended("cargo-nextest")
              THEN add_words(m2, << "cargo", "nextest", "run", "--no-capture", n >>)
              ELSE add_words(m2, << "cargo", "test", n, "--", "--nocapture" >>)
    IN  run_command(m3)

list_test(m) ==
    LET m1 == cache_prefix(m)
        m2 == IF Extended("cargo-nextest")
              THEN add_words(m1, << "cargo", "nextest", "list" >>)
              ELSE add_words(m1, << "cargo", "test", "--", "--list" >>)
    IN  run_command(m2)

\* release.lower().startswith('r'), over the values the model passes
StartsWithR(release) == release \in {"release", "r", "Release"}

build(m, release) ==
    LET m1 == cache_prefix(m)
        m2 == IF release # None /\ StartsWithR(release)
              THEN add_words(m1, << "cargo", "build", "--release" >>)
              ELSE add_words(m1, << "cargo", "build" >>)
    IN  run_command(m2)

NOT_SPECIFIED == "__NOT_SPECIFIED"

\* develop.py:110-114  parse the command line, set the no-extend global
develop_main ==
    /\ script = "develop.py"
    /\ pc = "start"
    /\ pc' = "dispatch"
    /\ DISABLE_EXTENDED_TOOLS' = IF argv.no_extend THEN TRUE
                                 ELSE DISABLE_EXTENDED_TOOLS
    /\ UNCHANGED << script, argv, handed, WINDOWS, which, child_status, git_root_is_dir,
                    RECACHE_SCCACHE, SKIP_SCCACHE, RUSTFLAGS, environ, env_log,
                    commands, raised, exit_code, tests_arg, total_jobs, outputs >>

\* develop.py:116-125  which branch of the if/elif chain is taken
DevelopBranch ==
    IF argv.clippy THEN "clippy"
    ELSE IF argv.test = None \/ argv.test # NOT_SPECIFIED THEN "test"
    ELSE IF argv.list_test THEN "list_test"
    ELSE IF argv.build = None \/ argv.build # NOT_SPECIFIED THEN "build"
    ELSE "error"

\* the function returns and the script runs off its end: exit status 0
DevelopFinish(m) ==
    /\ environ' = m.environ
    /\ env_log' = m.log
    /\ commands' = m.cmds
    /\ pc' = "exited"
    /\ exit_code' = 0
    /\ UNCHANGED << script, argv, handed, WINDOWS, which, child_status, git_root_is_dir,
                    RECACHE_SCCACHE, SKIP_SCCACHE, DISABLE_EXTENDED_TOOLS,
                    RUSTFLAGS, raised, tests_arg, total_jobs, outputs >>

DevelopAt(branch) == script = "develop.py" /\ pc = "dispatch" /\ DevelopBranch = branch

DevelopClippy == DevelopAt("clippy") /\ DevelopFinish(clippy(Machine))

DevelopTest == DevelopAt("test") /\ DevelopFinish(test(Machine, argv.test))

DevelopListTest == DevelopAt("list_test") /\ DevelopFinish(list_test(Machine))

DevelopBuild == DevelopAt("build") /\ DevelopFinish(build(Machine, argv.build))

DevelopMissingArguments == DevelopAt("error") /\ DevelopFinish(Machine)

----------------------------------------------------------------------------
(* miri.py: the test job partitioner.  Each job is one process,            *)
(*   miri.py --job <job_index> --tests <list> --package <package>,         *)
(* started by an outside scheduler, in any order.                          *)

TOTAL_JOBS == 10

\* t.strip(), over the tokens the model passes
strip(t) == IF t = " t1 " THEN "t1" ELSE t

\* miri.py:17  [t.strip() for t in tests_list if len(t.strip()) > 0]
clean(tokens) ==
    LET stripped == [i \in 1..Len(tokens) |-> strip(tokens[i])]
    IN  SelectSeq(stripped, LAMBDA t : t # "")

selected_positions_inclusive_end(total_tests, jobs, job_index) ==
    LET tests_per_job   == total_tests \div jobs
        start_job_index == job_index * tests_per_job
        end_job_index   == (job_index + 1) * tests_per_job
        is_last_job     == job_index = jobs - 1
        enumerate       == [i \in 1..total_tests |-> i - 1]
    IN  IF is_last_job
        THEN SelectSeq(enumerate, LAMBDA i : i >= start_job_index)
        ELSE SelectSeq(enumerate,
                       LAMBDA i : i >= start_job_index /\ i <= end_job_index)

selected_positions_no_last_job(total_tests, jobs, job_index) ==
    LET tests_per_job   == total_tests \div jobs
        start_job_index == job_index * tests_per_job
        end_job_index   == (job_index + 1) * tests_per_job
        enumerate       == [i \in 1..total_tests |-> i - 1]
    IN  SelectSeq(enumerate,
                  LAMBDA i : i >= start_job_index /\ i < end_job_index)

\* miri.py:20-35  the positions (from 0) of tests_list that the job keeps
selected_positions(total_tests, jobs, job_index) ==
    LET tests_per_job   == total_tests \div jobs
        start_job_index == job_index * tests_per_job
        end_job_index   == (job_index + 1) * tests_per_job
        is_last_job     == job_index = jobs - 1
        enumerate       == [i \in 1..total_tests |-> i - 1]
    IN  IF is_last_job
        THEN SelectSeq(enumerate, LAMBDA i : i >= start_job_index)
        ELSE SelectSeq(enumerate,
                       LAMBDA i : i >= start_job_index /\ i < end_job_index)

\* miri.py:14-40  start(tests_list, job_index, package)
start(tokens, job_index) ==
    LET tests_list == clean(tokens)
        positions  == selected_positions(Len(tests_list), total_jobs, job_index)
        filtered   == [k \in 1..Len(positions) |-> tests_list[positions[k] + 1]]
    IN  [positions |-> positions,
         tests_list |-> filtered,
         command |-> Words(<< "cargo", "+nightly", "miri", "nextest", "run", "-F",
                              "unicode_lines", "--no-default-features", "-p",
                              argv.package >>) \o Words(filtered),
         child |-> child_status,
         exit_code |-> 0]

JobIndexes == 0..(total_jobs - 1)

\* one worker: the process of job job_index runs start and ends; what it
\* did is kept in outputs[job_index] (pc and commands belong to the composers)
MiriStart ==
    /\ script = "miri.py"
    /\ \E job_index \in JobIndexes \ DOMAIN outputs :
          outputs' = [j \in DOMAIN outputs \cup {job_index} |->
                         IF j = job_index THEN start(tests_arg, job_index)
                         ELSE outputs[j]]
    /\ UNCHANGED << script, pc, argv, handed, WINDOWS, which, child_status,
                    git_root_is_dir, RECACHE_SCCACHE, SKIP_SCCACHE,
                    DISABLE_EXTENDED_TOOLS, RUSTFLAGS, environ, env_log,
                    commands, raised, exit_code, tests_arg, total_jobs >>

----------------------------------------------------------------------------
(* The processes the model starts *)

\* the longest generated test list, and the longest hand-written --tests value
MaxTests == 24
MaxRaw == 2

TestNames ==
    << "t0", "t1", "t2", "t3", "t4", "t5", "t6", "t7", "t8", "t9", "t10", "t11",
       "t12", "t13", "t14", "t15", "t16", "t17", "t18", "t19", "t20", "t21",
       "t22", "t23", "t24", "t25", "t26", "t27", "t28", "t29", "t30", "t31" >>

\* --tests values: t0,...,t(n-1), and short lists with blank, padded and
\* repeated entries ("".split(",") is [""], never the empty list)
RawTokens == {"", " t1 ", "t2"}
TestsArgs ==
    {[i \in 1..n |-> TestNames[i]] : n \in 1..MaxTests}
    \cup UNION {[1..n -> RawTokens] : n \in 1..MaxRaw}

NoEnvironment == [n \in EnvNames |-> Unset]

DevDefaults ==
    [kind |-> "Namespace", recache |-> FALSE, skip_cache |-> FALSE,
     subcommand |-> None, list_test |-> FALSE, name |-> << >>, miri |-> FALSE,
     job |-> None, release |-> FALSE, nightly |-> FALSE, verbose |-> FALSE,
     features |-> << >>, tsc |-> FALSE, rust |-> FALSE, watch |-> FALSE,
     level |-> None, execute |-> FALSE, version |-> None]

\* the command lines of dev.py the model starts
DevCommandLines ==
    {[DevDefaults EXCEPT !.subcommand = sub] : sub \in {None, "clippy", "c"}}
    \cup {[DevDefaults EXCEPT !.subcommand = sub, !.list_test = l, !.miri = mi,
                              !.job = j, !.name = n] :
            sub \in {"test", "t"}, l \in BOOLEAN, mi \in BOOLEAN,
            j \in {None, "4"}, n \in {<< >>, << "a", "b", "a" >>}}
    \cup {[DevDefaults EXCEPT !.subcommand = sub, !.release = r, !.nightly = ni,
                              !.verbose = v, !.features = f] :
            sub \in {"build", "b"}, r \in BOOLEAN, ni \in BOOLEAN,
            v \in BOOLEAN, f \in {<< >>, << "f1", "f2" >>}}
    \cup {[DevDefaults EXCEPT !.subcommand = sub, !.tsc = t, !.rust = r] :
            sub \in {"fmt", "f"}, t \in BOOLEAN, r \in BOOLEAN}
    \cup {[DevDefaults EXCEPT !.subcommand = "doc", !.watch = w] : w \in BOOLEAN}
    \cup {[DevDefaults EXCEPT !.subcommand = sub, !.level = lv, !.execute = e] :
            sub \in {"release", "r"}, lv \in {"patch"}, e \in BOOLEAN}
    \cup {[DevDefaults EXCEPT !.subcommand = "npm", !.version = v] :
            v \in {None, "patch"}}

InitCommon ==
    /\ pc = "start"
    /\ child_status \in ChildStatuses
    /\ RECACHE_SCCACHE = FALSE
    /\ SKIP_SCCACHE = FALSE
    /\ DISABLE_EXTENDED_TOOLS = FALSE
    /\ RUSTFLAGS = << >>
    /\ env_log = << >>
    /\ commands = << >>
    /\ raised = NoException
    /\ exit_code = Running
    /\ outputs = << >>

InitDev ==
    /\ script = "dev.py"
    /\ handed \in ArgKinds
    /\ WINDOWS \in BOOLEAN
    /\ \E line \in DevCommandLines, rc \in BOOLEAN, sk \in BOOLEAN :
          argv = [line EXCEPT !.recache = rc, !.skip_cache = sk]
    /\ which \in SUBSET {"sccache"}
    /\ git_root_is_dir \in (IF argv.subcommand \in {"release", "r"} THEN BOOLEAN
                            ELSE {TRUE})
    /\ environ \in (IF argv.subcommand \in {"test", "t"}
                    THEN {NoEnvironment, [NoEnvironment EXCEPT !["RSVIM_LOG"] = "debug"]}
                    ELSE {NoEnvironment})
    /\ tests_arg = << >>
    /\ total_jobs = TOTAL_JOBS

\* develop.py and miri.py have no run(args): nothing is handed over
InitDevelop ==
    /\ script = "develop.py"
    /\ handed = None
    /\ WINDOWS \in BOOLEAN
    /\ argv \in [clippy : BOOLEAN, test : {NOT_SPECIFIED, None, "t1"},
                 list_test : BOOLEAN, build : {NOT_SPECIFIED, None, "release"},
                 no_extend : BOOLEAN]
    /\ which \in SUBSET {"sccache", "bacon", "cargo-nextest"}
    /\ git_root_is_dir = TRUE
    /\ environ = NoEnvironment
    /\ tests_arg = << >>
    /\ total_jobs = TOTAL_JOBS

\* miri.py reads no platform fact and probes no tool
InitMiri ==
    /\ script = "miri.py"
    /\ handed = None
    /\ WINDOWS = FALSE
    /\ argv = [package |-> "rsvim_core"]
    /\ which = {}
    /\ git_root_is_dir = TRUE
    /\ environ = NoEnvironment
    /\ tests_arg \in TestsArgs
    /\ total_jobs \in 1..TOTAL_JOBS

\* the scripts as they are run from the command line: the dispatch loop of
\* dev.py hands the parser to run
AsShipped == handed # "Namespace"

Init == InitCommon /\ (InitDev \/ InitDevelop \/ InitMiri) /\ AsShipped

\* the composers: one run of dev.py or of develop.py
NextComposer ==
    \/ main
    \/ Build
    \/ Clippy
    \/ Document
    \/ Format
    \/ Npm
    \/ Release
    \/ Test
    \/ MissingArguments
    \/ develop_main
    \/ DevelopClippy
    \/ DevelopTest
    \/ DevelopListTest
    \/ DevelopBuild
    \/ DevelopMissingArguments

Next == NextComposer \/ MiriStart

\* the three scripts, run from the command line
Spec == Init /\ [][Next]_vars

\* the two composers, run from the command line
InitScripts == InitCommon /\ (InitDev \/ InitDevelop) /\ AsShipped
SpecScripts == InitScripts /\ [][NextComposer]_vars

\* the two composers, with the run methods of dev.py also called as
\* ICommand.run(args) states it: with the parsed arguments
InitComposer == InitCommon /\ (InitDev \/ InitDevelop)
SpecComposer == InitComposer /\ [][NextComposer]_vars

\* the partitioner alone
InitPartitioner == InitCommon /\ InitMiri
SpecMiri == InitPartitioner /\ [][MiriStart]_vars

----------------------------------------------------------------------------
(* The job partitioner: C1, C2, C3 *)

\* the test list a job partitions: the --tests value as miri.py:16-17 reads it
TestList == clean(tests_arg)

AllJobsRan == script = "miri.py" /\ DOMAIN outputs = JobIndexes

RECURSIVE ConcatJobs(_)
\* what jobs 0..k-1 received, concatenated in job-index order
ConcatJobs(k) ==
    IF k = 0 THEN << >> ELSE ConcatJobs(k - 1) \o outputs[k - 1].tests_list

PositionSet(job) == {outputs[job].positions[k] : k \in 1..Len(outputs[job].positions)}

\* C1: once every job index 0..K-1 has run, what the jobs received, put
\* together in job-index order, is the test list itself, element for element;
\* with one job, job 0 receives the whole list.
C1_Coverage ==
    AllJobsRan =>
        /\ ConcatJobs(total_jobs) = TestList
        /\ total_jobs = 1 => outputs[0].tests_list = TestList

\* all ten jobs ran on 24 tests: a remainder of 4 falls to the last job
C1_Witness ==
    /\ AllJobsRan
    /\ total_jobs = TOTAL_JOBS
    /\ Len(TestList) = 24
    /\ Len(outputs[total_jobs - 1].tests_list) > Len(outputs[0].tests_list)

\* C2: no position of the test list is selected by two different jobs.
C2_Disjoint ==
    script = "miri.py" =>
        \A i \in DOMAIN outputs, j \in DOMAIN outputs :
            i # j => PositionSet(i) \cap PositionSet(j) = {}

\* two neighbouring jobs ran and both received tests
C2_Witness ==
    /\ script = "miri.py"
    /\ \E i \in DOMAIN outputs :
          /\ i + 1 \in DOMAIN outputs
          /\ PositionSet(i) # {}
          /\ PositionSet(i + 1) # {}

\* C3: job i receives exactly the slice [i*perJob, (i+1)*perJob) of the test
\* list when it is not the last job, and [(K-1)*perJob, n) when it is; so with
\* n < K only the last job receives anything, and with n = 24, K = 10 jobs 0..8
\* receive two tests each and job 9 the last six.
C3_ExactSlice ==
    script = "miri.py" =>
        \A i \in DOMAIN outputs :
            LET n      == Len(TestList)
                K      == total_jobs
                perJob == n \div K
                got    == outputs[i].tests_list
            IN  /\ i < K - 1 =>
                      /\ got = SubSeq(TestList, i * perJob + 1, (i + 1) * perJob)
                      /\ Len(got) = perJob
                /\ i = K - 1 =>
                      /\ got = SubSeq(TestList, (K - 1) * perJob + 1, n)
                      /\ Len(got) = perJob + (n % K)
                      /\ Len(got) \in perJob..(perJob + K - 1)
                /\ n < K => got = IF i = K - 1 THEN TestList ELSE << >>
                /\ (n = 24 /\ K = 10) =>
                      got = IF i = 9
                            THEN << "t18", "t19", "t20", "t21", "t22", "t23" >>
                            ELSE << TestNames[2 * i + 1], TestNames[2 * i + 2] >>

\* the concrete case: 24 tests, 10 jobs, the first and the last job have run
C3_Witness ==
    /\ script = "miri.py"
    /\ Len(TestList) = 24
    /\ total_jobs = 10
    /\ {0, 9} \subseteq DOMAIN outputs
    /\ Len(outputs[9].tests_list) = 6

----------------------------------------------------------------------------
(* The composers: C4 .. C10 *)

Composer == script \in {"dev.py", "develop.py"}
\* the handler of the selected action has run to its end (or to an exception)
Ended == pc \in {"exited", "returned"}

Executed(k) == commands[k]
\* the variables resolved before the k-th command was executed
ResolvedBefore(k) == SubSeq(env_log, 1, commands[k].nlog)
\* the composer's variables among the NAME=value tokens that lead a command
ComposerPrefix(command) == SelectSeq(Prefix(command), LAMBDA tok : tok[1] \in EnvNames)
\* the value a name was last resolved to in a log
LastValue(log, name) ==
    LET at == {j \in 1..Len(log) : log[j][1] = name}
    IN  log[CHOOSE j \in at : \A i \in at : i <= j][2]
\* every variable of the log is in the environment env, with its last value
InEnvironment(log, env) ==
    \A j \in 1..Len(log) : env[log[j][1]] = LastValue(log, log[j][1])
\* the composer put nothing into the environment env
NotInEnvironment(log, env) ==
    \A j \in 1..Len(log) : log[j][1] # "RSVIM_LOG" => env[log[j][1]] = Unset

\* C4: the exit status of the tool's process is the exit status of the child
\* command it spawned.
C4_ExitStatusPropagates ==
    /\ (Composer /\ pc = "exited" /\ commands # << >>) => exit_code = child_status
    /\ script = "miri.py" =>
          \A job \in DOMAIN outputs : outputs[job].exit_code = outputs[job].child

C6_NoPrefixOnWindows ==
    (Composer /\ WINDOWS) =>
        \A k \in 1..Len(commands) :
            /\ Prefix(Executed(k).cmd) = << >>
            /\ InEnvironment(ResolvedBefore(k), Executed(k).env)


\* the cache-related variables resolved so far, in resolution order
CacheLog == SelectSeq(env_log, LAMBDA e : e[1] \in CacheNames)
\* a cache wrapper was found and skip-cache was not given
CacheUsable == SCCACHE_FULLPATH # None /\ ~SKIP_SCCACHE
Subcommand(names) == script = "dev.py" /\ argv.subcommand \in names

\* C7: with a cache wrapper found and not skipped, the cache rule of lint and
\* build sets the wrapper variable; with recache, each time the rule fires it
\* sets the invalidation variable and then, next, the wrapper variable, which
\* is the last cache variable set; without recache it sets the wrapper only.
C7_CacheOrdering ==
    (script = "dev.py" /\ CacheUsable) =>
        /\ (Ended /\ Subcommand({"clippy", "c", "build", "b"})) => CacheLog # << >>
        /\ \A k \in 1..Len(CacheLog) :
              CacheLog[k] = IF RECACHE_SCCACHE /\ k % 2 = 1
                            THEN << "SCCACHE_RECACHE", "1" >>
                            ELSE << "RUSTC_WRAPPER", SCCACHE_FULLPATH >>
        /\ RECACHE_SCCACHE => Len(CacheLog) % 2 = 0
        /\ CacheLog # << >> =>
              /\ environ["RUSTC_WRAPPER"] = SCCACHE_FULLPATH
              /\ environ["SCCACHE_RECACHE"] = IF RECACHE_SCCACHE THEN "1" ELSE Unset

\* dev.py --recache clippy, run from the command line with sccache installed
C7_Witness ==
    /\ script = "dev.py"
    /\ handed = "ArgumentParser"
    /\ pc = "exited"
    /\ RECACHE_SCCACHE
    /\ CacheLog = << << "SCCACHE_RECACHE", "1" >>,
                     << "RUSTC_WRAPPER", "/usr/bin/sccache" >> >>
    /\ Len(commands) = 1

\* the actions that apply the cache rule: lint, build, test and list-tests
\* (the memory-checked test alone does not)
AppliesCacheRule ==
    \/ Subcommand({"clippy", "c", "build", "b"})
    \/ Subcommand({"test", "t"}) /\ (argv.list_test \/ ~argv.miri)

\* C8: once an action that applies the cache rule has ended, the wrapper
\* variable is set exactly if a wrapper was found and skip-cache was not
\* given; otherwise no cache variable is set, nothing was raised and the
\* action's command was executed.
C8_CacheDegradation ==
    (AppliesCacheRule /\ Ended) =>
        /\ (\E j \in 1..Len(env_log) : env_log[j][1] = "RUSTC_WRAPPER") <=> CacheUsable
        /\ ~CacheUsable =>
              /\ CacheLog = << >>
              /\ raised = NoException
              /\ commands # << >>

\* C9: after the lint action the flag accumulator starts with the
\* warnings-as-errors flag, followed on Windows by the symbol-mangling flag;
\* off Windows with no optional tool found it holds that one flag only, and no
\* cache wrapper variable is set.
C9_LintFlags ==
    (Subcommand({"clippy", "c"}) /\ Ended) =>
        /\ RUSTFLAGS # << >>
        /\ RUSTFLAGS[1] = "-Dwarnings"
        /\ WINDOWS => RUSTFLAGS = << "-Dwarnings", "-Csymbol-mangling-version=v0" >>
        /\ (~WINDOWS /\ which = {}) =>
              /\ RUSTFLAGS = << "-Dwarnings" >>
              /\ CacheLog = << >>
              /\ environ["RUSTC_WRAPPER"] = Unset

\* dev.py clippy, run from the command line on Windows: both flags are added
C9_Witness ==
    /\ Subcommand({"clippy", "c"})
    /\ handed = "ArgumentParser"
    /\ pc = "exited"
    /\ WINDOWS
    /\ Len(RUSTFLAGS) = 2
    /\ environ["RUSTFLAGS"] # Unset

\* C10: with the list option the test subcommand executes the list-only
\* command and nothing else.
C10_ListOnly ==
    (Subcommand({"test", "t"}) /\ argv.list_test /\ Ended) =>
        /\ Len(commands) = 1
        /\ commands[1].cmd = Words(<< "cargo", "nextest", "list" >>)

====
